---- MODULE Spec2Model ----
(***************************************************************************)
(* Model of gilts.py: the date-format scan over the maturity column, the   *)
(* second pass that normalizes, filters and prices every row, the sort of  *)
(* the constructed Security records and the report loop.                   *)
(*                                                                         *)
(* Numbers: Python floats are modelled as exact rationals <<n, d>> in      *)
(* lowest terms with d > 0.  pow(b, e) - 1 is kept as the pair             *)
(* [base, exp]; its sign and its order are decided exactly by integer      *)
(* cross-multiplication.  Text fields: a date string "a/b/y" is the tuple  *)
(* <<a, b, y>>, a numeric field is [na, val] ("N/A" or the number), a name *)
(* is a sequence of characters.                                            *)
(***************************************************************************)
EXTENDS Integers, Sequences, FiniteSets, TLC

VARIABLES file, written_as, today, tax_rate, pc, error, pos, date_format,
          resolved_at, visits, calcs, assets, printed

vars == <<file, written_as, today, tax_rate, pc, error, pos, date_format,
          resolved_at, visits, calcs, assets, printed>>

\* Longest input, in data rows.
MaxRows == 3

(***************************************************************************)
(* Exact rational arithmetic standing for float arithmetic.                *)
(***************************************************************************)
Abs(x) == IF x < 0 THEN -x ELSE x

RECURSIVE GCD(_, _)
GCD(a, b) == IF b = 0 THEN a ELSE GCD(b, a % b)

Rat(n, d) ==
    LET g == GCD(Abs(n), Abs(d))
        s == IF d < 0 THEN -1 ELSE 1
    IN  <<(s * n) \div g, (s * d) \div g>>

Float(v) == Rat(v, 1)
RAdd(x, y) == Rat(x[1] * y[2] + y[1] * x[2], x[2] * y[2])
RSub(x, y) == Rat(x[1] * y[2] - y[1] * x[2], x[2] * y[2])
RMul(x, y) == Rat(x[1] * y[1], x[2] * y[2])
RDiv(x, y) == Rat(x[1] * y[2], x[2] * y[1])
RLeq(x, y) == x[1] * y[2] <= y[1] * x[2]
RLess(x, y) == x[1] * y[2] < y[1] * x[2]

RECURSIVE IPow(_, _)
IPow(b, k) == IF k = 0 THEN 1 ELSE b * IPow(b, k - 1)

(***************************************************************************)
(* pow(base, exp) - 1 with base > 0, exp # 0: the value base^exp - 1.      *)
(* A negative exponent is folded into the base, and 1^e is 1^1.            *)
(***************************************************************************)
PowMinusOne(base, exp) ==
    LET b == IF exp[1] < 0 THEN RDiv(Float(1), base) ELSE base
        e == IF exp[1] < 0 THEN Rat(-exp[1], exp[2]) ELSE exp
    IN  IF b = Float(1) THEN [base |-> b, exp |-> Float(1)]
        ELSE [base |-> b, exp |-> e]

\* x >= 0 for x = base^exp - 1 (exp > 0): base >= 1.
AERNonNeg(x) == RLeq(Float(1), x.base)

\* x <= y.  Both sides are raised to the least power that makes both
\* exponents whole numbers, which keeps the order for positive bases.
AERLeq(x, y) ==
    LET l  == (x.exp[2] * y.exp[2]) \div GCD(x.exp[2], y.exp[2])
        kx == x.exp[1] * (l \div x.exp[2])
        ky == y.exp[1] * (l \div y.exp[2])
        g  == GCD(kx, ky)
        ex == kx \div g
        ey == ky \div g
    IN  IPow(x.base[1], ex) * IPow(y.base[2], ey)
            <= IPow(y.base[1], ey) * IPow(x.base[2], ex)

AEREq(x, y) == AERLeq(x, y) /\ AERLeq(y, x)
AERLess(x, y) == ~AERLeq(y, x)

(***************************************************************************)
(* Calendar dates and datetime.strptime.                                   *)
(***************************************************************************)
DayFirst == "%d/%m/%Y"
MonthFirst == "%m/%d/%Y"
None == "None"

IsLeap(y) == (y % 4 = 0) /\ ((y % 100 # 0) \/ (y % 400 = 0))

DaysInMonth(y, m) ==
    IF m = 2 THEN (IF IsLeap(y) THEN 29 ELSE 28)
    ELSE IF m \in {4, 6, 9, 11} THEN 30 ELSE 31

RECURSIVE DaysBeforeMonth(_, _)
DaysBeforeMonth(y, m) ==
    IF m = 1 THEN 0 ELSE DaysBeforeMonth(y, m - 1) + DaysInMonth(y, m - 1)

DaysBeforeYear(y) ==
    LET p == y - 1 IN p * 365 + (p \div 4) - (p \div 100) + (p \div 400)

\* date.toordinal(); date subtraction and comparison go through it.
ToOrdinal(dt) == DaysBeforeYear(dt.y) + DaysBeforeMonth(dt.y, dt.m) + dt.d

Date(y, m, d) == [ok |-> TRUE, y |-> y, m |-> m, d |-> d]
ParseError == [ok |-> FALSE, y |-> 0, m |-> 0, d |-> 0]

\* datetime.strptime(s, fmt): ValueError unless the month field is 1..12
\* and the day field is a day of that month.
Strptime(s, fmt) ==
    LET d == IF fmt = DayFirst THEN s[1] ELSE s[2]
        m == IF fmt = DayFirst THEN s[2] ELSE s[1]
    IN  IF m \in 1..12 /\ s[3] >= 1 /\ d >= 1 /\ d <= DaysInMonth(s[3], m)
        THEN Date(s[3], m, d)
        ELSE ParseError

\* How an export in the given layout writes a date.
Strftime(dt, fmt) ==
    IF fmt = DayFirst THEN <<dt.d, dt.m, dt.y>> ELSE <<dt.m, dt.d, dt.y>>

(***************************************************************************)
(* Text helpers.                                                           *)
(***************************************************************************)
UpperCase == <<"A","B","C","D","E","F","G","H","I","J","K","L","M",
               "N","O","P","Q","R","S","T","U","V","W","X","Y","Z">>
LowerCase == <<"a","b","c","d","e","f","g","h","i","j","k","l","m",
               "n","o","p","q","r","s","t","u","v","w","x","y","z">>

\* str.lower(), character by character.
Lower(name) ==
    [i \in 1..Len(name) |->
        IF \E k \in 1..26 : UpperCase[k] = name[i]
        THEN LowerCase[CHOOSE k \in 1..26 : UpperCase[k] = name[i]]
        ELSE name[i]]

\* str.startswith
StartsWith(name, prefix) ==
    /\ Len(name) >= Len(prefix)
    /\ \A i \in 1..Len(prefix) : name[i] = prefix[i]

\* the name test of the row loop
IsUkName(gilt_name) == StartsWith(Lower(gilt_name), <<"u", "k">>)

\* A numeric column: the literal "N/A" or a number.
NA == [na |-> TRUE, val |-> 0]
Num(v) == [na |-> FALSE, val |-> v]

\* row[k] with the code's zero-based index.
Field(row, k) == row[k + 1]

(***************************************************************************)
(* SecurityType and the category lookup.                                   *)
(***************************************************************************)
BILL == "Bill"
CONVENTIONAL == "Conventional"
INDEXLINKED == "Index-Linked"
STRIP == "STRIPS"

SecurityToType ==
    [label \in {"Bills", "Conventional", "Index-linked", "Strips"} |->
        CASE label = "Bills" -> BILL
          [] label = "Conventional" -> CONVENTIONAL
          [] label = "Index-linked" -> INDEXLINKED
          [] label = "Strips" -> STRIP]

\* a lookup that falls back to an excluded type instead of raising
LookupType_default(label) ==
    IF label \in DOMAIN SecurityToType
    THEN [err |-> "", type |-> SecurityToType[label]]
    ELSE [err |-> "", type |-> STRIP]

\* SecurityToType[label]: the type, or the KeyError of a missing key
LookupType(label) ==
    IF label \in DOMAIN SecurityToType
    THEN [err |-> "", type |-> SecurityToType[label]]
    ELSE [err |-> "KeyError", type |-> None]

(***************************************************************************)
(* Tax-rate validation.                                                    *)
(***************************************************************************)
TaxRateRejected(t) == (t <= 1 /\ t # 0) \/ t > 100

\* the scan with its two conclusions exchanged
ScanStep_swapped(fmt, s) ==
    LET first == IF ~Strptime(s, DayFirst).ok THEN DayFirst ELSE fmt
    IN  IF first = None
        THEN (IF ~Strptime(s, MonthFirst).ok THEN MonthFirst ELSE None)
        ELSE first

\* the scan settling on day-first when both patterns parse
ScanStep_guessing(fmt, s) ==
    LET first == IF ~Strptime(s, DayFirst).ok THEN MonthFirst ELSE fmt
    IN  IF first = None THEN DayFirst ELSE first

(***************************************************************************)
(* One step of the date-format scan: the body of the first loop, applied   *)
(* to the current value of date_format and one maturity-date string.       *)
(***************************************************************************)
ScanStep(fmt, s) ==
    LET first == IF ~Strptime(s, DayFirst).ok THEN MonthFirst ELSE fmt
    IN  IF first = None
        THEN (IF ~Strptime(s, MonthFirst).ok THEN DayFirst ELSE None)
        ELSE first

(***************************************************************************)
(* Normalization of one row: the first failing conversion decides the      *)
(* exception; otherwise the parsed fields.                                 *)
(***************************************************************************)
NormalizeRow(row, fmt) ==
    LET export_date   == Strptime(Field(row, 1), fmt)
        looked_up     == LookupType(Field(row, 3))
        maturity_date == Strptime(Field(row, 5), fmt)
        clean == IF ~Field(row, 6).na THEN Float(Field(row, 6).val)
                 ELSE Float(100)
        dirty == IF ~Field(row, 7).na THEN Float(Field(row, 7).val)
                 ELSE clean
        err == IF ~export_date.ok THEN "ValueError"
               ELSE IF looked_up.err # "" THEN looked_up.err
               ELSE IF ~maturity_date.ok THEN "ValueError"
               ELSE ""
    IN  [err |-> err,
         gilt_name |-> Field(row, 0),
         export_date |-> export_date,
         ISIN |-> Field(row, 2),
         type |-> looked_up.type,
         coupon |-> IF ~Field(row, 4).na THEN Float(Field(row, 4).val)
                    ELSE Float(0),
         maturity_date |-> maturity_date,
         days_to_maturity |-> IF export_date.ok /\ maturity_date.ok
                              THEN ToOrdinal(maturity_date)
                                   - ToOrdinal(export_date)
                              ELSE 0,
         clean |-> clean,
         dirty |-> dirty]

(***************************************************************************)
(* The three silent exclusions of the row loop, in the code's order.       *)
(***************************************************************************)
\* the maturity test letting a security that matures today through
Matured_strict(maturity_date, now) == ToOrdinal(maturity_date) < ToOrdinal(now)

Matured(maturity_date, now) == ToOrdinal(maturity_date) <= ToOrdinal(now)

Skipped(n, now) ==
    \/ Matured(n.maturity_date, now)
    \/ ~IsUkName(n.gilt_name)
    \/ n.type \in {STRIP, INDEXLINKED}

(***************************************************************************)
(* Return calculation.                                                     *)
(***************************************************************************)
TaxableReturn(n) ==
    IF n.type = BILL THEN RSub(Float(100), n.dirty)
    ELSE RMul(n.coupon, Rat(n.days_to_maturity, 365))

TotalGrossReturn(n) ==
    IF n.type = BILL THEN RSub(Float(100), n.dirty)
    ELSE RAdd(RSub(Float(100), n.dirty), TaxableReturn(n))

\* tax charged on the whole gross return
TotalNetReturn_taxAll(n, t) ==
    RSub(TotalGrossReturn(n), RMul(TotalGrossReturn(n), Rat(t, 100)))

TotalNetReturn(n, t) ==
    RSub(TotalGrossReturn(n), RMul(TaxableReturn(n), Rat(t, 100)))

\* The locals of one iteration that reaches the calculation; err names the
\* division that raised, if one did.
Calculate(n, t) ==
    LET net == TotalNetReturn(n, t)
        err == IF n.dirty[1] = 0 \/ n.days_to_maturity = 0
               THEN "ZeroDivisionError" ELSE ""
        percentage_return == IF n.dirty[1] = 0 THEN Float(0)
                             ELSE RDiv(net, n.dirty)
    IN  [err |-> err,
         ISIN |-> n.ISIN,
         type |-> n.type,
         coupon |-> n.coupon,
         dirty |-> n.dirty,
         days_to_maturity |-> n.days_to_maturity,
         taxable_return |-> TaxableReturn(n),
         total_gross_return |-> TotalGrossReturn(n),
         total_net_return |-> net,
         percentage_return |-> percentage_return,
         annual_equiv |->
            IF err = "" THEN PowMinusOne(RAdd(percentage_return, Float(1)),
                                         Rat(365, n.days_to_maturity))
            ELSE PowMinusOne(Float(1), Float(1))]

Security(n, c) ==
    [ISIN |-> n.ISIN, Type |-> n.type, Coupon |-> n.coupon,
     Maturity |-> n.maturity_date, Dirty |-> n.dirty,
     GrossAER |-> c.annual_equiv]

(***************************************************************************)
(* assets.sort(key=GrossAER, reverse=True): a stable descending sort.      *)
(***************************************************************************)
\* an insertion that puts a record before the records of equal key
RECURSIVE InsertDesc_unstable(_, _)
InsertDesc_unstable(sorted, x) ==
    IF sorted = <<>> THEN <<x>>
    ELSE IF AERLeq(Head(sorted).GrossAER, x.GrossAER)
         THEN <<x>> \o sorted
         ELSE <<Head(sorted)>> \o InsertDesc_unstable(Tail(sorted), x)

RECURSIVE InsertDesc(_, _)
InsertDesc(sorted, x) ==
    IF sorted = <<>> THEN <<x>>
    ELSE IF AERLess(Head(sorted).GrossAER, x.GrossAER)
         THEN <<x>> \o sorted
         ELSE <<Head(sorted)>> \o InsertDesc(Tail(sorted), x)

RECURSIVE SortDesc(_)
SortDesc(s) ==
    IF s = <<>> THEN <<>>
    ELSE InsertDesc(SortDesc(SubSeq(s, 1, Len(s) - 1)), s[Len(s)])

(***************************************************************************)
(* The comparison column of one report line: the quotient num / den, or    *)
(* the ZeroDivisionError of the division.                                  *)
(***************************************************************************)
\* the figure grossed up whatever the sign of the yield
Comparison_always(asset, t) ==
    [err |-> IF RSub(Float(1), Rat(t, 100))[1] = 0
             THEN "ZeroDivisionError" ELSE "",
     num |-> asset.GrossAER,
     den |-> RSub(Float(1), Rat(t, 100))]

Comparison(asset, t) ==
    IF AERNonNeg(asset.GrossAER)
    THEN [err |-> IF RSub(Float(1), Rat(t, 100))[1] = 0
                  THEN "ZeroDivisionError" ELSE "",
          num |-> asset.GrossAER,
          den |-> RSub(Float(1), Rat(t, 100))]
    ELSE [err |-> "", num |-> asset.GrossAER, den |-> Float(1)]

(***************************************************************************)
(* Inputs.  Every date of a file is a valid calendar date written in the   *)
(* one layout written_as; prices are positive; the ISIN of the k-th data   *)
(* row is k.                                                               *)
(***************************************************************************)
TaxRates == {0, 1, 20, 100, 101}

Todays == {Date(2026, 2, 10), Date(2027, 2, 5)}

\* the header line: column titles, no dates and no numbers
HeaderRow ==
    << <<"G","i","l","t">>, <<0, 0, 0>>, 0, "Type", NA, <<0, 0, 0>>, NA, NA >>

Content(name, export, label, coupon, maturity, clean, dirty) ==
    [name |-> name, export |-> export, label |-> label, coupon |-> coupon,
     maturity |-> maturity, clean |-> clean, dirty |-> dirty]

RowContents ==
    { Content(<<"U","K","T","B">>, Date(2026, 2, 5), "Bills", NA,
              Date(2027, 2, 5), Num(98), Num(98)),
      Content(<<"U","K","T">>, Date(2026, 2, 15), "Conventional", Num(4),
              Date(2028, 2, 15), Num(101), Num(102)),
      Content(<<"u","k","t">>, Date(2026, 2, 5), "Conventional", Num(1),
              Date(2027, 2, 5), Num(104), NA),
      Content(<<"D","E">>, Date(2026, 2, 15), "Conventional", Num(2),
              Date(2027, 2, 15), Num(99), Num(99)),
      Content(<<"U","K","T">>, Date(2026, 2, 5), "Strips", NA,
              Date(2027, 2, 5), Num(90), Num(90)),
      Content(<<"U","K","T">>, Date(2026, 2, 15), "Index-linked", Num(1),
              Date(2027, 2, 15), Num(120), Num(121)),
      Content(<<"F","R">>, Date(2026, 2, 5), "Corporate", Num(3),
              Date(2027, 2, 5), Num(97), Num(97)),
      Content(<<"U","K","T","B">>, Date(2027, 2, 15), "Bills", NA,
              Date(2027, 2, 15), Num(99), Num(99)),
      Content(<<"U","k">>, Date(2026, 2, 15), "Bills", NA,
              Date(2027, 2, 15), NA, NA) }

\* the data row an export in layout fmt writes for content c
WriteRow(c, isin, fmt) ==
    << c.name, Strftime(c.export, fmt), isin, c.label, c.coupon,
       Strftime(c.maturity, fmt), c.clean, c.dirty >>

DataRows == Len(file) - 1

(***************************************************************************)
(* State after the argument-count check: nothing read yet.                 *)
(***************************************************************************)
Init ==
    /\ written_as \in {DayFirst, MonthFirst}
    /\ \E n \in 0..MaxRows : \E cs \in [1..n -> RowContents] :
          file = <<HeaderRow>> \o [k \in 1..n |-> WriteRow(cs[k], k, written_as)]
    /\ today \in Todays
    /\ tax_rate \in TaxRates
    /\ pc = "validate"
    /\ error = ""
    /\ pos = 0
    /\ date_format = None
    /\ resolved_at = 0
    /\ visits = <<>>
    /\ calcs = <<>>
    /\ assets = <<>>
    /\ printed = <<>>

Abort(kind) == pc' = "aborted" /\ error' = kind

\* tax_rate = float(sys.argv[2]) and its range check
ValidateTaxRate ==
    /\ pc = "validate"
    /\ IF TaxRateRejected(tax_rate) THEN Abort("tax_rate")
       ELSE pc' = "open" /\ error' = error
    /\ UNCHANGED <<file, written_as, today, tax_rate, pos, date_format,
                   resolved_at, visits, calcs, assets, printed>>

\* open the file, create the reader, drop the header
OpenFile ==
    /\ pc = "open"
    /\ pc' = "scan"
    /\ pos' = 1
    /\ date_format' = None
    /\ UNCHANGED <<file, written_as, today, tax_rate, error, resolved_at,
                   visits, calcs, assets, printed>>

\* one iteration of the first loop; break as soon as date_format is set
ScanRow ==
    /\ pc = "scan"
    /\ pos < Len(file)
    /\ date_format' = ScanStep(date_format, Field(file[pos + 1], 5))
    /\ pos' = pos + 1
    /\ pc' = IF date_format' # None THEN "rewind" ELSE "scan"
    /\ resolved_at' = IF date_format' # None THEN pos ELSE resolved_at
    /\ UNCHANGED <<file, written_as, today, tax_rate, error, visits, calcs,
                   assets, printed>>

\* the first loop ran out of rows with date_format still unset
ScanExhausted ==
    /\ pc = "scan"
    /\ pos >= Len(file)
    /\ Abort("date_format")
    /\ UNCHANGED <<file, written_as, today, tax_rate, pos, date_format,
                   resolved_at, visits, calcs, assets, printed>>

\* the reader left where the first loop stopped
RewindPos_noseek(p) == p

\* f.seek(0); next(csv_reader): the reader position after the rewind
RewindPos(p) == 1

Rewind ==
    /\ pc = "rewind"
    /\ pos' = RewindPos(pos)
    /\ pc' = "rows"
    /\ UNCHANGED <<file, written_as, today, tax_rate, error, date_format,
                   resolved_at, visits, calcs, assets, printed>>

\* one iteration of the second loop
ProcessRow ==
    /\ pc = "rows"
    /\ pos < Len(file)
    /\ LET n == NormalizeRow(file[pos + 1], date_format)
           c == Calculate(n, tax_rate)
       IN  IF n.err # ""
           THEN /\ Abort(n.err)
                /\ UNCHANGED <<pos, visits, calcs, assets>>
           ELSE /\ visits' = Append(visits,
                                [row |-> pos,
                                 export_date |-> n.export_date,
                                 maturity_date |-> n.maturity_date])
                /\ IF Skipped(n, today)
                   THEN /\ pos' = pos + 1
                        /\ UNCHANGED <<pc, error, calcs, assets>>
                   ELSE /\ calcs' = Append(calcs, c)
                        /\ IF c.err # ""
                           THEN Abort(c.err) /\ UNCHANGED <<pos, assets>>
                           ELSE /\ assets' = Append(assets, Security(n, c))
                                /\ pos' = pos + 1
                                /\ UNCHANGED <<pc, error>>
    /\ UNCHANGED <<file, written_as, today, tax_rate, date_format,
                   resolved_at, printed>>

\* the second loop is over: sort, print the table header
SortAssets ==
    /\ pc = "rows"
    /\ pos >= Len(file)
    /\ assets' = SortDesc(assets)
    /\ pc' = "print"
    /\ UNCHANGED <<file, written_as, today, tax_rate, error, pos,
                   date_format, resolved_at, visits, calcs, printed>>

\* one iteration of the report loop
PrintAsset ==
    /\ pc = "print"
    /\ Len(printed) < Len(assets)
    /\ LET asset == assets[Len(printed) + 1]
           cmp == Comparison(asset, tax_rate)
       IN  IF cmp.err # ""
           THEN Abort(cmp.err) /\ UNCHANGED printed
           ELSE /\ printed' = Append(printed,
                                 [asset |-> asset,
                                  comparison |-> [num |-> cmp.num,
                                                  den |-> cmp.den]])
                /\ UNCHANGED <<pc, error>>
    /\ UNCHANGED <<file, written_as, today, tax_rate, pos, date_format,
                   resolved_at, visits, calcs, assets>>

\* the report loop is over: the script ends
Finish ==
    /\ pc = "print"
    /\ Len(printed) = Len(assets)
    /\ pc' = "done"
    /\ UNCHANGED <<file, written_as, today, tax_rate, error, pos,
                   date_format, resolved_at, visits, calcs, assets, printed>>

Next ==
    \/ ValidateTaxRate
    \/ OpenFile
    \/ ScanRow
    \/ ScanExhausted
    \/ Rewind
    \/ ProcessRow
    \/ SortAssets
    \/ PrintAsset
    \/ Finish

Spec == Init /\ [][Next]_vars

(***************************************************************************)
(* What the file says, read in the layout it was written in.               *)
(***************************************************************************)
RowNumbers == 1..DataRows
DataRow(k) == file[k + 1]
TrueMaturity(k) == Strptime(Field(DataRow(k), 5), written_as)
TrueExport(k) == Strptime(Field(DataRow(k), 1), written_as)

\* the string parses under both patterns
Ambiguous(s) == Strptime(s, DayFirst).ok /\ Strptime(s, MonthFirst).ok
AllAmbiguous == \A k \in RowNumbers : Ambiguous(Field(DataRow(k), 5))

HasDayAbove12 == \E k \in RowNumbers : TrueMaturity(k).d > 12
FirstDayAbove12 ==
    CHOOSE k \in RowNumbers :
        /\ TrueMaturity(k).d > 12
        /\ \A j \in 1..(k - 1) : TrueMaturity(j).d <= 12

\* calendar order, field by field
DateAfter(a, b) ==
    \/ a.y > b.y
    \/ a.y = b.y /\ a.m > b.m
    \/ a.y = b.y /\ a.m = b.m /\ a.d > b.d

UnknownLabel(k) ==
    Field(DataRow(k), 3) \notin {"Bills", "Conventional", "Index-linked", "Strips"}

ScanOver ==
    \/ pc \in {"rewind", "rows", "print", "done"}
    \/ pc = "aborted" /\ error # "tax_rate"

WriteOnce == [][date_format # None => date_format' = date_format]_vars

(***************************************************************************)
(* C1: when every maturity date is a valid date in one layout and some     *)
(* row has a day above 12, the scan resolves to that layout, at the first  *)
(* row whose day is above 12 and not before it, and the format is never    *)
(* changed afterwards.                                                     *)
(***************************************************************************)
C1_State ==
    HasDayAbove12 =>
        /\ ScanOver => /\ date_format = written_as
                       /\ resolved_at = FirstDayAbove12
        /\ date_format # None => resolved_at = FirstDayAbove12
        /\ (pc = "scan" /\ pos <= FirstDayAbove12) => date_format = None

C1_ScanResolvesToTrueFormat == []C1_State /\ WriteOnce

C1_Witness ==
    /\ pc = "rows"
    /\ DataRows = 3
    /\ written_as = MonthFirst
    /\ date_format = MonthFirst
    /\ resolved_at = 2
    /\ Ambiguous(Field(DataRow(1), 5))
    /\ TrueMaturity(3).d > 12

(***************************************************************************)
(* C2: when every maturity string parses under both patterns (no data row  *)
(* at all included), the format stays unresolved, the exhausted scan       *)
(* aborts the run, no row is ever normalized and no record is produced.    *)
(***************************************************************************)
C2_State ==
    AllAmbiguous =>
        /\ date_format = None
        /\ pc \in {"validate", "open", "scan", "aborted"}
        /\ pc = "aborted" => error \in {"tax_rate", "date_format"}
        /\ visits = <<>> /\ calcs = <<>> /\ assets = <<>> /\ printed = <<>>

C2_Step ==
    (AllAmbiguous /\ pc = "scan" /\ pos >= Len(file))
        => (pc' = "aborted" /\ error' = "date_format")

C2_AllAmbiguousAborts == []C2_State /\ [][C2_Step]_vars

C2_Witness ==
    /\ AllAmbiguous
    /\ DataRows >= 2
    /\ pc = "aborted"
    /\ error = "date_format"

(***************************************************************************)
(* C3: in a run that completes, the report holds exactly one record for    *)
(* each row that matures after today, has a name starting with "uk" in any *)
(* case and is a Bill or a Conventional, and no record for any other row.  *)
(***************************************************************************)
EligibleRow(k) ==
    /\ DateAfter(TrueMaturity(k), today)
    /\ Len(Field(DataRow(k), 0)) >= 2
    /\ Field(DataRow(k), 0)[1] \in {"u", "U"}
    /\ Field(DataRow(k), 0)[2] \in {"k", "K"}
    /\ Field(DataRow(k), 3) \in {"Bills", "Conventional"}

LinesOf(k) == {i \in 1..Len(printed) : printed[i].asset.ISIN = k}

C3_OutputIsExactlyEligibleRows ==
    pc = "done" =>
        /\ \A k \in RowNumbers :
              Cardinality(LinesOf(k)) = IF EligibleRow(k) THEN 1 ELSE 0
        /\ \A i \in 1..Len(printed) : printed[i].asset.ISIN \in RowNumbers

C3_Witness ==
    /\ pc = "done"
    /\ DataRows = 3
    /\ Len(printed) = 1
    /\ \E k \in RowNumbers : TrueMaturity(k) = today
    /\ \E k \in RowNumbers : /\ DateAfter(TrueMaturity(k), today)
                             /\ Field(DataRow(k), 3) = "Conventional"
                             /\ ~EligibleRow(k)

(***************************************************************************)
(* C4: every row that reaches the return calculation has                   *)
(* days_to_maturity > 0.                                                   *)
(***************************************************************************)
C4_DaysToMaturityPositive ==
    \A i \in 1..Len(calcs) : calcs[i].days_to_maturity > 0

(***************************************************************************)
(* C5: a data row with a label outside the lookup aborts the run when it   *)
(* is normalized, whatever the filters would have said about it, and the   *)
(* run never reports a record.                                             *)
(***************************************************************************)
C5_State ==
    (\E k \in RowNumbers : UnknownLabel(k)) =>
        /\ pc \notin {"print", "done"}
        /\ printed = <<>>

C5_Step ==
    (pc = "rows" /\ pos < Len(file) /\ UnknownLabel(pos))
        => (pc' = "aborted" /\ error' \in {"KeyError", "ValueError"}
            /\ assets' = assets /\ printed' = <<>>)

C5_UnknownLabelAborts == []C5_State /\ [][C5_Step]_vars

C5_Witness ==
    /\ pc = "aborted"
    /\ error = "KeyError"
    /\ Len(assets) >= 1
    /\ UnknownLabel(pos)
    /\ ~DateAfter(TrueMaturity(pos), today)
    /\ ~IsUkName(Field(DataRow(pos), 0))

(***************************************************************************)
(* C6: for every row that reaches the calculation: a Bill has taxable =    *)
(* gross = 100 - dirty; a Conventional has taxable = coupon * days / 365   *)
(* and gross = (100 - dirty) + taxable; net = gross - taxable * t / 100;   *)
(* at t = 0 net = gross; a Conventional keeps 100 - dirty untaxed.         *)
(***************************************************************************)
C6_Line(c) ==
    /\ c.type = BILL =>
          /\ c.taxable_return = c.total_gross_return
          /\ RAdd(c.total_gross_return, c.dirty) = Float(100)
    /\ c.type = CONVENTIONAL =>
          /\ RMul(c.taxable_return, Float(365))
                = RMul(c.coupon, Float(c.days_to_maturity))
          /\ RSub(c.total_gross_return, c.taxable_return)
                = RSub(Float(100), c.dirty)
          /\ RSub(c.total_net_return, RSub(Float(100), c.dirty))
                = RMul(c.taxable_return, Rat(100 - tax_rate, 100))
    /\ RMul(RSub(c.total_gross_return, c.total_net_return), Float(100))
          = RMul(c.taxable_return, Float(tax_rate))
    /\ tax_rate = 0 => c.total_net_return = c.total_gross_return

C6_ReturnFormulas == \A i \in 1..Len(calcs) : C6_Line(calcs[i])

C6_Witness ==
    /\ tax_rate = 20
    /\ \E i \in 1..Len(calcs) : /\ calcs[i].type = CONVENTIONAL
                                /\ calcs[i].days_to_maturity = 730
                                /\ calcs[i].total_net_return = Rat(22, 5)
    /\ \E i \in 1..Len(calcs) : /\ calcs[i].type = BILL
                                /\ calcs[i].total_net_return = Rat(8, 5)

(***************************************************************************)
(* C7: the reported sequence is non-increasing in the stored AER, holds    *)
(* each constructed record exactly once, and keeps records of equal AER in *)
(* the order of their rows.                                                *)
(***************************************************************************)
C7_SortedStablePermutation ==
    pc \in {"print", "done"} =>
        /\ \A i, j \in 1..Len(assets) :
              i < j => /\ AERLeq(assets[j].GrossAER, assets[i].GrossAER)
                       /\ AEREq(assets[i].GrossAER, assets[j].GrossAER)
                             => assets[i].ISIN < assets[j].ISIN
        /\ Len(assets) = Len(calcs)
        /\ \A n \in 1..Len(calcs) :
              Cardinality({i \in 1..Len(assets) :
                              /\ assets[i].ISIN = calcs[n].ISIN
                              /\ assets[i].GrossAER = calcs[n].annual_equiv
                              /\ assets[i].Dirty = calcs[n].dirty}) = 1
        /\ \A i \in 1..Len(printed) : printed[i].asset = assets[i]

C7_Witness ==
    /\ pc = "done"
    /\ Len(printed) = 3
    /\ \E i \in 1..2 :
          /\ AEREq(printed[i].asset.GrossAER, printed[i + 1].asset.GrossAER)
          /\ printed[i].asset.GrossAER.exp = Float(1)
    /\ \E i \in 1..2 :
          /\ AERLess(printed[i + 1].asset.GrossAER, printed[i].asset.GrossAER)
          /\ printed[i].asset.ISIN > printed[i + 1].asset.ISIN
          /\ printed[i].asset.GrossAER.exp # printed[i + 1].asset.GrossAER.exp

(***************************************************************************)
(* C8: for a tax rate below 100, the comparison figure of a line is the    *)
(* stored AER itself when the AER is negative and AER / (1 - t/100)        *)
(* otherwise; printing never changes a stored record.                      *)
(***************************************************************************)
\* the quotient f.num / f.den has the value of aer / r
FigureIs(f, aer, r) ==
    /\ f.num = aer
    /\ f.den = r \/ (AERNonNeg(aer) /\ aer.base = Float(1))

C8_State ==
    tax_rate < 100 =>
        \A i \in 1..Len(printed) :
            /\ printed[i].asset = assets[i]
            /\ IF AERNonNeg(assets[i].GrossAER)
               THEN FigureIs(printed[i].comparison, assets[i].GrossAER,
                             Rat(100 - tax_rate, 100))
               ELSE FigureIs(printed[i].comparison, assets[i].GrossAER,
                             Float(1))

C8_Step == pc = "print" => assets' = assets

C8_ComparisonFigure == []C8_State /\ [][C8_Step]_vars

C8_Witness ==
    /\ pc = "done"
    /\ tax_rate = 20
    /\ Len(printed) = 3
    /\ ~AERNonNeg(printed[3].asset.GrossAER)
    /\ printed[3].comparison.den = Float(1)
    /\ printed[1].asset.GrossAER.base # Float(1)
    /\ printed[1].comparison.den = Rat(4, 5)

C10_State ==
    /\ (visits # <<>> \/ pc = "rows") => date_format # None
    /\ Len(visits) <= DataRows
    /\ \A k \in 1..Len(visits) :
          /\ visits[k].row = k
          /\ visits[k].export_date = Strptime(Field(DataRow(k), 1), date_format)
          /\ visits[k].maturity_date = Strptime(Field(DataRow(k), 5), date_format)
    /\ pc = "rows" => pos = Len(visits) + 1
    /\ pc \in {"print", "done"} => Len(visits) = DataRows

C10_TwoSequentialPasses == []C10_State /\ WriteOnce

C10_Witness ==
    /\ pc = "done"
    /\ DataRows = 3
    /\ resolved_at = 2
    /\ Len(visits) = 3
    /\ visits[3].maturity_date = TrueMaturity(3)

====
